---- MODULE Spec2Model ----
(***************************************************************************)
(* Model of skills/skill-installer/scripts/install_skill.py: the update    *)
(* reconciliation of an installed skill (check_existing_skill,             *)
(* perform_smart_update), the locator classifier (parse_github_url) and    *)
(* the installer (install_skill, install_skills_batch).                    *)
(*                                                                         *)
(* A file's text is a sequence of words, a directory entry is absent, a    *)
(* file or a directory of files, and a skill tree maps entry names to      *)
(* entries.                                                                *)
(***************************************************************************)
EXTENDS Integers, Sequences, FiniteSets, TLC

\* ------------------------------------------------------------------ bounds

\* Files a directory inside a fetched or installed skill may hold initially.
MaxSubFiles == 1

\* Locators of one batch.
MaxUrls == 2

\* Path segments after the host in a locator.
MaxSegs == 4

\* Path segments after the branch in a downloaded URL.
MaxPath == 2

\* ------------------------------------------------------------ file entries

Absent == [kind |-> "none"]

File(data) == [kind |-> "file", data |-> data]

\* files: a set of <<name, data>> pairs, one pair per name.
Dir(files) == [kind |-> "dir", files |-> files]

Exists(e) == e.kind # "none"

IsDir(e) == e.kind = "dir"

\* The directory `files` with the file `name` written (created or replaced).
WriteChild(files, name, data) ==
    {p \in files : p[1] # name} \cup {<<name, data>>}

\* Entry names of a skill tree and of the directories in it.
Names == {"SKILL.md", "CONTEXT.md", "CONTEXT.md.new", "assets", "a.txt", "b.txt"}

EmptyTree == [n \in Names |-> Absent]

\* The names a directory listing of the tree yields.
Listing(tree) == {n \in Names : Exists(tree[n])}

\* Every order in which iterdir() may yield the names of S.
Orders(S) ==
    {o \in [1..Cardinality(S) -> S] : \A i, j \in 1..Cardinality(S) : o[i] = o[j] => i = j}

\* ------------------------------------------------- is_context_personalized

TEMPLATE_MARKERS ==
    {"<!-- REPLACE", "<!-- CUSTOMIZE", "<!-- TODO", "REPLACE ME", "REPLACE_ME",
     "your-value-here", "YOUR_VALUE", "[your ", "<your-"}

\* str.lower() on the words and markers of the model.
lower(w) ==
    CASE w = "<!-- REPLACE" -> "<!-- replace"
      [] w = "<!-- CUSTOMIZE" -> "<!-- customize"
      [] w = "<!-- TODO" -> "<!-- todo"
      [] w = "REPLACE ME" -> "replace me"
      [] w = "Replace Me" -> "replace me"
      [] w = "REPLACE_ME" -> "replace_me"
      [] w = "YOUR_VALUE" -> "your_value"
      [] w = "Team: Payments, Owner: alice" -> "team: payments, owner: alice"
      [] w = "# Context" -> "# context"
      [] OTHER -> w

\* content.lower(): word by word.
lower_text(content) == [i \in DOMAIN content |-> lower(content[i])]

\* `marker in text`, a marker being one word of the text.
Contains(text, marker) == \E i \in DOMAIN text : text[i] = marker

is_context_personalized(content) ==
    LET content_lower == lower_text(content)
    IN  ~ \E marker \in TEMPLATE_MARKERS : Contains(content_lower, lower(marker))

\* ------------------------------------------------------------ compare_files

\* SHA-256 of the bytes: equal digests exactly for equal contents.
compute_file_hash(e) == <<"sha256", e.data>>

\* "True", "False", or "raise" when open() is given a directory.
compare_files(file1, file2) ==
    IF ~Exists(file1) \/ ~Exists(file2) THEN "False"
    ELSE IF IsDir(file1) \/ IsDir(file2) THEN "raise"
    ELSE IF compute_file_hash(file1) = compute_file_hash(file2) THEN "True"
    ELSE "False"

\* ----------------------------------------------------- check_existing_skill

Raised == [raised |-> TRUE]

StatusOf(skill, context, strategy) ==
    [raised |-> FALSE, skill_md |-> skill, context_md |-> context, strategy |-> strategy]

\* The 'skill_md' field (lines 100-105).
skill_md_state(existing, new) ==
    IF Exists(existing["SKILL.md"])
    THEN IF Exists(new["SKILL.md"])
         THEN CASE compare_files(existing["SKILL.md"], new["SKILL.md"]) = "True" -> "same"
                [] compare_files(existing["SKILL.md"], new["SKILL.md"]) = "False" -> "different"
                [] OTHER -> "raise"
         ELSE "different"
    ELSE "missing"

\* The 'context_md' field (lines 107-120).
context_md_state(existing, new) ==
    IF Exists(existing["CONTEXT.md"])
    THEN IF IsDir(existing["CONTEXT.md"]) THEN "raise"
         ELSE IF is_context_personalized(existing["CONTEXT.md"].data) THEN "personalized"
         ELSE IF Exists(new["CONTEXT.md"])
              THEN CASE compare_files(existing["CONTEXT.md"], new["CONTEXT.md"]) = "True" -> "same"
                     [] compare_files(existing["CONTEXT.md"], new["CONTEXT.md"]) = "False" -> "template"
                     [] OTHER -> "raise"
              ELSE "template"
    ELSE "missing"

\* strategy_of with the final test blind to a personalized context.
strategy_of_skip_personalized(skill, context) ==
    LET s0 == "update"
        s1 == IF context = "personalized" THEN "merge" ELSE s0
    IN  IF skill = "same" /\ context \in {"same", "missing", "personalized"}
        THEN "skip" ELSE s1

\* The 'strategy' field: 'update' at first, 'merge' once the context is found
\* personalized, 'skip' by the final test (lines 94, 115, 123-124).
strategy_of(skill, context) ==
    LET s0 == "update"
        s1 == IF context = "personalized" THEN "merge" ELSE s0
    IN  IF skill = "same" /\ context \in {"same", "missing"} THEN "skip" ELSE s1

check_existing_skill(existing, new) ==
    LET skill == skill_md_state(existing, new)
        context == context_md_state(existing, new)
    IN  IF skill = "raise" \/ context = "raise" THEN Raised
        ELSE StatusOf(skill, context, strategy_of(skill, context))

\* ------------------------------------------------------------ shutil calls

\* copy2 that leaves an existing destination as it is.
copy2_no_overwrite(item, name, dest_item) ==
    IF IsDir(item) THEN Raised
    ELSE IF Exists(dest_item) THEN [raised |-> FALSE, entry |-> dest_item]
    ELSE [raised |-> FALSE, entry |-> File(item.data)]

\* shutil.copy2(src, dst) for the source entry `item` called `name`: the entry
\* at dst afterwards, or Raised. A directory as source raises IsADirectoryError;
\* a directory at dst receives the file under the source's base name.
copy2(item, name, dest_item) ==
    IF IsDir(item) THEN Raised
    ELSE IF IsDir(dest_item)
         THEN [raised |-> FALSE, entry |-> Dir(WriteChild(dest_item.files, name, item.data))]
         ELSE [raised |-> FALSE, entry |-> File(item.data)]

\* Lines 373-376: a directory item replaces the destination entry wholesale;
\* shutil.rmtree of an entry that is a file raises NotADirectoryError.
replace_dir(item, dest_item) ==
    IF Exists(dest_item) /\ ~IsDir(dest_item) THEN Raised
    ELSE [raised |-> FALSE, entry |-> Dir(item.files)]

\* skip_item that leaves nothing out.
skip_item_never(name, status) == FALSE

\* Line 370: the loop leaves an item out.
skip_item(name, status) ==
    name = "CONTEXT.md" /\ status.context_md = "personalized"

\* One iteration of the loop of lines 366-378.
copy_item(name, item, dest_item) ==
    IF IsDir(item) THEN replace_dir(item, dest_item) ELSE copy2(item, name, dest_item)

\* The loop of lines 366-378 over the candidate's entries in the order `order`;
\* an exception leaves the entries copied so far in place.
RECURSIVE update_files(_, _, _, _)
update_files(existing, new, status, order) ==
    IF order = <<>> THEN [tree |-> existing, ret |-> "True"]
    ELSE LET name == Head(order)
             r == copy_item(name, new[name], existing[name])
         IN  IF skip_item(name, status)
             THEN update_files(existing, new, status, Tail(order))
             ELSE IF r.raised THEN [tree |-> existing, ret |-> "raise"]
             ELSE update_files([existing EXCEPT ![name] = r.entry], new, status, Tail(order))

\* ---------------------------------------------------- perform_smart_update

\* Line 338.
skips(status, force) == status.strategy = "skip" /\ ~force

\* saves_new_context without the test of line 343.
saves_new_context_always(status, new) == Exists(new["CONTEXT.md"])

\* Lines 343-345: the incoming CONTEXT.md is saved beside the personalized one.
saves_new_context(status, new) ==
    status.context_md = "personalized" /\ Exists(new["CONTEXT.md"])

\* Lines 352-354: the user is asked.
prompts(status, force, interactive) ==
    ~force /\ interactive /\ status.skill_md = "different"

\* Lines 352-380, entered with the tree as lines 343-350 left it.
confirm_and_update(tree, new, status, force, interactive, response, order) ==
    IF prompts(status, force, interactive) /\ response = "n"
    THEN [tree |-> tree, ret |-> "False"]
    ELSE update_files(tree, new, status, order)

\* The whole call: the tree at existing_path afterwards and "True", "False"
\* or "raise". `response` is the answer typed at the prompt, `order` the order
\* of new_path.iterdir().
perform_smart_update(existing, new, force, interactive, response, order) ==
    LET status == check_existing_skill(existing, new)
        saved == copy2(new["CONTEXT.md"], "CONTEXT.md", existing["CONTEXT.md.new"])
    IN  IF status.raised THEN [tree |-> existing, ret |-> "raise"]
        ELSE IF skips(status, force) THEN [tree |-> existing, ret |-> "False"]
        ELSE IF saves_new_context(status, new)
             THEN IF saved.raised THEN [tree |-> existing, ret |-> "raise"]
                  ELSE confirm_and_update([existing EXCEPT !["CONTEXT.md.new"] = saved.entry],
                                          new, status, force, interactive, response, order)
             ELSE confirm_and_update(existing, new, status, force, interactive, response, order)

\* The answers input() may return where the prompt is shown; "" where it is not.
Responses(existing, new, force, interactive) ==
    LET status == check_existing_skill(existing, new)
    IN  IF ~status.raised /\ ~skips(status, force) /\ prompts(status, force, interactive)
        THEN {"n", "y"} ELSE {""}


\* --------------------------------------------------------- parse_github_url

\* A locator is a sequence of tokens: " ", "/", a scheme, a host, or a piece
\* of a path segment ("tools", ".git").
Schemes == {"https://", "http://"}

\* str.rstrip(t) and str.lstrip(t) for the one-token character set {t}.
RECURSIVE rstrip(_, _)
rstrip(u, t) ==
    IF u # <<>> /\ u[Len(u)] = t THEN rstrip(SubSeq(u, 1, Len(u) - 1), t) ELSE u

RECURSIVE lstrip(_, _)
lstrip(u, t) ==
    IF u # <<>> /\ u[1] = t THEN lstrip(Tail(u), t) ELSE u

\* url.strip().rstrip('/') (line 137)
normalize(u) == rstrip(rstrip(lstrip(u, " "), " "), "/")

\* Lines 140-141.
with_scheme(u) ==
    IF u # <<>> /\ u[1] = "github.com" THEN <<"https://">> \o u ELSE u

\* The tokens of u split at "/", as a sequence of segments.
RECURSIVE split(_, _, _)
split(u, cur, acc) ==
    IF u = <<>> THEN Append(acc, cur)
    ELSE IF Head(u) = "/" THEN split(Tail(u), <<>>, Append(acc, cur))
    ELSE split(Tail(u), Append(cur, Head(u)), acc)

\* The segments joined with "/" again.
RECURSIVE join(_)
join(segs) ==
    IF segs = <<>> THEN <<>>
    ELSE IF Len(segs) = 1 THEN segs[1]
    ELSE segs[1] \o <<"/">> \o join(Tail(segs))

\* [^/]+ : one or more tokens, none holding a slash.
IsSeg(seg) == seg # <<>> /\ \A i \in DOMAIN seg : seg[i] \notin Schemes

\* https?://github\.com/ at the start of u.
HasGithubPrefix(u) ==
    Len(u) >= 3 /\ u[1] \in Schemes /\ u[2] = "github.com" /\ u[3] = "/"

\* The segments after https?://github\.com/
Segments(u) == split(SubSeq(u, 4, Len(u)), <<>>, <<>>)

\* owner/repo/<word>/branch/path with a non-empty path (lines 152-155, 166-169).
MatchesDeep(u, word) ==
    /\ HasGithubPrefix(u)
    /\ LET p == Segments(u)
       IN  /\ Len(p) >= 5
           /\ IsSeg(p[1]) /\ IsSeg(p[2]) /\ p[3] = <<word>> /\ IsSeg(p[4])
           /\ join(SubSeq(p, 5, Len(p))) # <<>>

\* The segments with the empty one a single trailing "/" leaves removed ( /?$ ).
DropTrailingEmpty(p) ==
    IF Len(p) >= 1 /\ p[Len(p)] = <<>> THEN SubSeq(p, 1, Len(p) - 1) ELSE p

\* Lines 180-183.
repo_match(u) ==
    /\ HasGithubPrefix(u)
    /\ LET p == DropTrailingEmpty(Segments(u))
       IN  \/ Len(p) = 2 /\ IsSeg(p[1]) /\ IsSeg(p[2])
           \/ Len(p) = 4 /\ IsSeg(p[1]) /\ IsSeg(p[2]) /\ p[3] = <<"tree">> /\ IsSeg(p[4])

\* Lines 193-196.
simple_match(u) ==
    /\ HasGithubPrefix(u)
    /\ LET p == DropTrailingEmpty(Segments(u))
       IN  Len(p) = 2 /\ IsSeg(p[1]) /\ IsSeg(p[2])

\* repo.replace('.git', '')
remove_git(repo) == SelectSeq(repo, LAMBDA t : t # ".git")

\* The rules of lines 143-205 on the normalized url, first match first.
classify(u) ==
    LET p == Segments(u)
        q == DropTrailingEmpty(p)
    IN  IF \E i \in DOMAIN u : u[i] = "raw.githubusercontent.com"
        THEN [type |-> "raw", url |-> u]
        ELSE IF u # <<>> /\ u[Len(u)] = ".skill" /\ ~\E i \in DOMAIN u : u[i] = "github.com"
        THEN [type |-> "direct", url |-> u]
        ELSE IF MatchesDeep(u, "blob")
        THEN [type |-> "file", owner |-> p[1], repo |-> p[2], branch |-> p[4],
              path |-> join(SubSeq(p, 5, Len(p)))]
        ELSE IF MatchesDeep(u, "tree")
        THEN [type |-> "folder", owner |-> p[1], repo |-> p[2], branch |-> p[4],
              path |-> join(SubSeq(p, 5, Len(p)))]
        ELSE IF repo_match(u)
        THEN [type |-> "repo", owner |-> q[1], repo |-> q[2],
              branch |-> IF Len(q) = 4 THEN q[4] ELSE <<"main">>]
        ELSE IF simple_match(u)
        THEN [type |-> "repo", owner |-> q[1], repo |-> remove_git(q[2]),
              branch |-> <<"main">>]
        ELSE [type |-> "ValueError", url |-> u]

parse_github_url(url) == classify(with_scheme(normalize(url)))

\* The locators parsed: optional blanks, scheme and trailing slash around a
\* host and at most MaxSegs path segments.
SegmentChoices ==
    {<<"acme">>, <<"tools", ".git">>, <<"linter", ".skill">>, <<"tree">>, <<"blob">>, <<"main">>}

RECURSIVE PathsOf(_)
PathsOf(n) ==
    IF n = 0 THEN {<<>>}
    ELSE LET shorter == PathsOf(n - 1)
         IN  shorter \cup {pth \o <<"/">> \o seg : pth \in {x \in shorter : Len(split(x, <<>>, <<>>)) = n},
                                                  seg \in SegmentChoices}

Locators ==
    {ws \o scheme \o host \o pth \o slash \o ws :
        ws \in {<<>>, <<" ">>},
        scheme \in {<<>>, <<"https://">>, <<"http://">>},
        host \in {<<"github.com">>, <<"raw.githubusercontent.com">>, <<"example.com">>},
        pth \in PathsOf(MaxSegs),
        slash \in {<<>>, <<"/">>}}


\* ------------------------------------------------------------ download_file

\* A token after which the next token follows a slash.
EndsWithSlash(t) == t = "/" \/ t \in Schemes

\* '/main/' in url (line 216)
contains_main(u) ==
    \E i \in 1..(Len(u) - 2) : EndsWithSlash(u[i]) /\ u[i + 1] = "main" /\ u[i + 2] = "/"

\* url.replace('/main/', '/master/') (line 217): every occurrence, left to right,
\* an occurrence beginning after the end of the one before.
RECURSIVE replace_main(_)
replace_main(u) ==
    IF u = <<>> THEN <<>>
    ELSE IF Len(u) >= 3 /\ EndsWithSlash(u[1]) /\ u[2] = "main" /\ u[3] = "/"
    THEN <<u[1], "master", "/">> \o replace_main(SubSeq(u, 4, Len(u)))
    ELSE <<u[1]>> \o replace_main(Tail(u))

\* What urlretrieve may meet: the bytes, an HTTPError with its code, a URLError.
ServerResponses ==
    {[code |-> 200, bytes |-> b] : b \in {"bytes-a", "bytes-b"}} \cup
    {[code |-> 404], [code |-> 500], [code |-> 0]}

\* Line 214: the exception caught is an HTTPError with code 404.
is_not_found(resp) == resp.code = 404

\* Lines 214-216: the alternate URL is tried.
tries_alternate(u, resp) == is_not_found(resp) /\ contains_main(u)

\* What download_file ends with after the response to its last request.
download_result(resp) ==
    IF resp.code = 200 THEN [kind |-> "ok", bytes |-> resp.bytes]
    ELSE [kind |-> "raise", code |-> resp.code]

\* The non-empty paths of at most n segments below a branch.
RECURSIVE BranchPaths(_)
BranchPaths(n) ==
    IF n = 0 THEN {}
    ELSE {<<"/", seg>> : seg \in {"main", "docs", "SKILL.md"}} \cup
         {pth \o <<"/", seg>> : pth \in BranchPaths(n - 1), seg \in {"main", "docs", "SKILL.md"}}

Branches == {"main", "master", "dev"}

\* The URLs install_skill downloads: a file of a branch (lines 414, 425-432,
\* 256), the archive of a branch (line 268), a direct .skill file (line 414).
DownloadUrls ==
    {<<"https://", "raw.githubusercontent.com", "/", "acme", "/", "tools", "/", b>> \o pth :
        b \in Branches, pth \in BranchPaths(MaxPath)} \cup
    {<<"https://", "github.com", "/", "acme", "/", "tools", "/", "archive", "/", "refs",
       "/", "heads", "/", b, ".zip">> : b \in Branches} \cup
    {<<"https://", "example.com", "/", "linter", ".skill">>}


\* ------------------------------------------------------- the destination

\* A directory of the destination holding a skill tree.
SkillDir(tree) == [kind |-> "tree", tree |-> tree]

\* Names of the entries of the destination directory.
DestNames == {"linter", "assets", "tools", "tools.git", "tools-main", "SKILL.md"}

EmptyDest == [n \in DestNames |-> Absent]

\* ''.join(tokens) for the names the model's locators yield.
NameStr(tokens) ==
    CASE tokens = <<"linter">> -> "linter"
      [] tokens = <<"tools">> -> "tools"
      [] tokens = <<"tools", ".git">> -> "tools.git"
      [] tokens = <<"SKILL.md">> -> "SKILL.md"
      [] tokens = <<"linter", ".skill">> -> "linter.skill"

\* s.split('/')[-1]
last_segment(s) ==
    LET p == split(s, <<>>, <<>>)
    IN  SelectSeq(p[Len(p)], LAMBDA t : t \notin Schemes)

\* filename.endswith('.skill')
endswith_skill(filename) == filename # <<>> /\ filename[Len(filename)] = ".skill"

\* The tree a directory of files is when taken as a skill root.
TreeOfDir(files) ==
    [n \in Names |-> IF \E p \in files : p[1] = n
                     THEN File((CHOOSE p \in files : p[1] = n)[2])
                     ELSE Absent]

\* The tree found at a destination entry: of a file, nothing below it exists.
TreeAt(entry) == IF entry.kind = "tree" THEN entry.tree ELSE EmptyTree

Path(name) == [kind |-> "path", path |-> name]

None == [kind |-> "none"]

Raise(msg) == [kind |-> "raise", msg |-> msg]

\* ---------------------------------------------------- find_skill_in_folder

\* What find_skill_in_folder may return for the tree: "." for the folder itself,
\* the name of an immediate subfolder holding SKILL.md (the first one iterdir()
\* yields, so any of them), or "" for None.
find_skill_in_folder(folder) ==
    LET subfolders == {n \in Names : /\ IsDir(folder[n])
                                     /\ \E p \in folder[n].files : p[1] = "SKILL.md"}
    IN  IF Exists(folder["SKILL.md"]) THEN {"."}
        ELSE IF subfolders # {} THEN subfolders
        ELSE {""}

\* ------------------------------------------------------ install_skill_file

\* zf.extractall(dest_dir) entry by entry in the order `order`, into the tree
\* at dest_dir/skill_name; a file over a directory, or a directory over a file,
\* raises and leaves what was extracted so far.
RECURSIVE extract_files(_, _, _)
extract_files(tree, archive, order) ==
    IF order = <<>> THEN [tree |-> tree, ret |-> "True"]
    ELSE LET name == Head(order)
             item == archive[name]
             target == tree[name]
         IN  IF IsDir(item)
             THEN IF target.kind = "file" THEN [tree |-> tree, ret |-> "raise"]
                  ELSE extract_files(
                         [tree EXCEPT ![name] =
                             Dir({p \in (IF IsDir(target) THEN target.files ELSE {}) :
                                     ~\E q \in item.files : q[1] = p[1]} \cup item.files)],
                         archive, Tail(order))
             ELSE IF IsDir(target) THEN [tree |-> tree, ret |-> "raise"]
             ELSE extract_files([tree EXCEPT ![name] = File(item.data)], archive, Tail(order))

\* install_skill_file for an archive whose entries lie under the one directory
\* archive.root, or for bytes that are no zip archive (archive.root = "").
install_skill_file(archive, dest, order) ==
    LET skill_name == archive.root
        done == extract_files(TreeAt(dest[skill_name]), archive.tree, order)
    IN  IF skill_name = "" THEN [dest |-> dest, out |-> Raise("BadZipFile")]
        ELSE IF dest[skill_name].kind = "file"
        THEN [dest |-> dest, out |-> Raise("FileExistsError")]
        ELSE IF done.ret = "raise"
        THEN [dest |-> [dest EXCEPT ![skill_name] = SkillDir(done.tree)],
              out |-> Raise("IsADirectoryError")]
        ELSE [dest |-> [dest EXCEPT ![skill_name] = SkillDir(done.tree)],
              out |-> Path(skill_name)]

\* Lines 416-421 and 434-438: a downloaded file is installed as an archive or
\* copied into the destination. `data` is an archive for a .skill file name and
\* the file's text otherwise.
install_file(filename, data, dest, order) ==
    LET name == NameStr(filename)
    IN  IF endswith_skill(filename) THEN install_skill_file(data, dest, order)
        ELSE IF dest[name].kind = "tree"
        THEN [dest |-> [dest EXCEPT ![name] =
                           SkillDir([dest[name].tree EXCEPT ![name] = File(data)])],
              out |-> Path(name)]
        ELSE [dest |-> [dest EXCEPT ![name] = File(data)], out |-> Path(name)]

\* ------------------------------------------- install_skill: folder and repo

\* Lines 457-473 and 494-510: a skill root was found.
install_skill_root(skill_name, skill_root, dest, opts, answer, order) ==
    LET skill_dest == dest[skill_name]
        status == check_existing_skill(TreeAt(skill_dest), skill_root)
        done == perform_smart_update(TreeAt(skill_dest), skill_root,
                                     opts.force, opts.interactive, answer, order)
    IN  IF Exists(skill_dest)
        THEN IF opts.check_only
             THEN [dest |-> dest,
                   out |-> IF status.raised THEN Raise("IsADirectoryError") ELSE None]
             ELSE IF skill_dest.kind = "file"
             THEN [dest |-> dest, out |-> Raise("NotADirectoryError")]
             ELSE [dest |-> [dest EXCEPT ![skill_name] = SkillDir(done.tree)],
                   out |-> CASE done.ret = "True" -> Path(skill_name)
                             [] done.ret = "False" -> None
                             [] OTHER -> Raise("OSError")]
        ELSE [dest |-> [dest EXCEPT ![skill_name] = SkillDir(skill_root)],
              out |-> Path(skill_name)]

\* Lines 474-480 and 511-518: no SKILL.md was found and the whole fetched tree
\* is installed under `name`.
install_whole_tree(name, tree, dest) ==
    IF dest[name].kind = "file"
    THEN [dest |-> dest, out |-> Raise("NotADirectoryError")]
    ELSE [dest |-> [dest EXCEPT ![name] = SkillDir(tree)], out |-> Path(name)]

\* The tree at the skill root find_skill_in_folder returned.
skill_root_of(folder, found) ==
    IF found \in {".", ""} THEN folder ELSE TreeOfDir(folder[found].files)

\* Lines 454-480 and 491-518 for the fetched tree `folder`, called root_name in
\* the scratch directory, `found` being what find_skill_in_folder returned.
install_tree(root_name, fallback_name, folder, found, dest, opts, answer, order) ==
    IF found = "." THEN install_skill_root(root_name, folder, dest, opts, answer, order)
    ELSE IF found # ""
    THEN install_skill_root(found, skill_root_of(folder, found), dest, opts, answer, order)
    ELSE install_whole_tree(fallback_name, folder, dest)

\* Lines 520-533: what install_skill returns for the skill_path the body left.
final_result(out, opts) ==
    IF out.kind = "path" /\ opts.check_only THEN None ELSE out


\* ------------------------------------------------------------ input trees

SkillV1 == <<"# Linter v1">>
SkillV2 == <<"# Linter v2">>
Personal == <<"Team: Payments, Owner: alice">>
Template == <<"# Context", "YOUR_VALUE">>
TemplateB == <<"Replace Me">>
Asset == <<"x">>

\* Directories of at most MaxSubFiles files.
DirImages ==
    {Dir(fs) : fs \in {S \in SUBSET ({"a.txt", "b.txt"} \X {Asset}) :
                          Cardinality(S) <= MaxSubFiles}}

TreeOf(skill, context, contextNew, assets) ==
    [n \in Names |->
        CASE n = "SKILL.md" -> skill
          [] n = "CONTEXT.md" -> context
          [] n = "CONTEXT.md.new" -> contextNew
          [] n = "assets" -> assets
          [] OTHER -> Absent]

\* Installed skills a reconciliation may find.
ExistingTrees ==
    {TreeOf(s, c, cn, a) :
        s \in {Absent, File(SkillV1), File(SkillV2)},
        c \in {Absent, File(Personal), File(Template), File(TemplateB)},
        cn \in {Absent, File(Template), Dir({})},
        a \in {Absent, File(Asset)} \cup DirImages}

\* Freshly fetched candidates.
CandidateTrees ==
    {TreeOf(s, c, cn, a) :
        s \in {Absent, File(SkillV1)},
        c \in {Absent, File(Template), File(Personal), Dir({})},
        cn \in {Absent, File(TemplateB), Dir({})},
        a \in {Absent, File(Asset)} \cup DirImages}

\* ------------------------------------------------- inputs of the installer

\* The installed skill a user has personalized.
InstalledSkill == TreeOf(File(SkillV2), File(Personal), Absent, Dir({<<"a.txt", Asset>>}))

\* What a download may deliver as a folder or a repository.
FetchedTrees ==
    {TreeOf(File(SkillV1), File(Template), Absent, Absent),
     TreeOf(File(SkillV1), Absent, Absent, Dir({<<"b.txt", Asset>>})),
     TreeOf(Absent, Absent, Absent, Dir({<<"SKILL.md", SkillV1>>})),
     TreeOf(Absent, File(Template), Absent, Absent)}

\* What a download may deliver as a .skill file: an archive of one skill
\* directory, or bytes that are no archive.
FetchedArchives ==
    {[root |-> "linter", tree |-> TreeOf(File(SkillV1), File(Template), Absent, Absent)],
     [root |-> "", tree |-> EmptyTree]}

\* The directory at the top of a repository archive.
RepoArchiveRoot == "tools-main"

InitialDests ==
    {EmptyDest} \cup
    {[n \in DestNames |-> IF n \in {"linter", "tools", "tools-main", "assets"}
                          THEN SkillDir(t) ELSE Absent] :
        t \in {InstalledSkill, TreeOf(File(SkillV1), File(Template), Absent, Absent)}}

\* The locators given to the installer.
InstallLocators ==
    {<<"https://", "raw.githubusercontent.com", "/", "acme", "/", "tools", "/", "main", "/", "SKILL.md">>,
     <<"https://", "example.com", "/", "linter", ".skill">>,
     <<"github.com", "/", "acme", "/", "tools", "/", "blob", "/", "main", "/", "linter", ".skill">>,
     <<"github.com", "/", "acme", "/", "tools", "/", "tree", "/", "main", "/", "skills", "/", "linter">>,
     <<"github.com", "/", "acme", "/", "tools">>,
     <<"github.com", "/", "acme", "/", "tools", ".git", "/">>,
     <<"example.com", "/", "acme">>}

\* The non-empty lists of at most n locators.
RECURSIVE UrlLists(_)
UrlLists(n) ==
    IF n = 0 THEN {}
    ELSE {<<u>> : u \in InstallLocators} \cup
         {Append(l, u) : l \in UrlLists(n - 1), u \in InstallLocators}


\* ------------------------------------------------------------------- state

VARIABLES
    existing,       \* the tree at existing_path
    new,            \* the tree at new_path
    pre,            \* the tree at existing_path when perform_smart_update was called
    force, interactive,
    response,       \* what input() returned, "" if it was not called
    status,         \* the last result of check_existing_skill
    ret,            \* "True", "False" or "raise" of perform_smart_update
    recheck,        \* the result of check_existing_skill called again after the update
    phase           \* "fresh", "checked", "updated", "rechecked"

reconVars == <<existing, new, pre, force, interactive, response, status, ret, recheck, phase>>

VARIABLES
    url,            \* the locator given to parse_github_url
    parsed          \* what parse_github_url returned or raised for it

parseVars == <<url, parsed>>

VARIABLES
    dest,           \* the destination directory
    destBefore,     \* the destination when the current install_skill call began
    scratch,        \* the TemporaryDirectory of the current call exists
    zipTmp,         \* the NamedTemporaryFile of download_github_repo exists
    pc,             \* "idle", "loop", "download", "zip", "install", "done"
    mode,           \* "single": main() calls install_skill; "batch": install_skills_batch
    urls,           \* the locators to install
    idx,            \* the locator being installed
    opts,           \* force, check_only, interactive
    comps,          \* parse_github_url's result for the current locator
    fetched,        \* what the download left in the scratch directory
    outcome,        \* how the last install_skill call ended
    installed,      \* the batch's list of installed paths
    failed,         \* the batch's list of (url, error)
    log             \* every finished install_skill call: its locator and outcome

instVars == <<dest, destBefore, scratch, zipTmp, pc, mode, urls, idx, opts, comps,
              fetched, outcome, installed, failed, log>>

VARIABLES
    dlUrl,          \* the url given to download_file
    requests,       \* the requests made so far: the url asked and the response
    dlResult,       \* how download_file ended
    dlPc            \* "idle", "start", "caught", "done"

dlVars == <<dlUrl, requests, dlResult, dlPc>>

vars == <<reconVars, parseVars, instVars, dlVars>>

NoStatus == [raised |-> FALSE, skill_md |-> "", context_md |-> "", strategy |-> ""]

\* ------------------------------------------------- reconciliation of a skill

ReconInit ==
    /\ existing \in ExistingTrees
    /\ new \in CandidateTrees
    /\ pre = existing
    /\ force = FALSE
    /\ interactive = FALSE
    /\ response = ""
    /\ status = NoStatus
    /\ ret = ""
    /\ recheck = NoStatus
    /\ phase = "fresh"

\* status = check_existing_skill(existing_path, new_path)
CheckExistingSkill ==
    /\ phase = "fresh"
    /\ status' = check_existing_skill(existing, new)
    /\ phase' = "checked"
    /\ UNCHANGED <<existing, new, pre, force, interactive, response, ret, recheck>>
    /\ UNCHANGED <<parseVars, instVars, dlVars>>

\* perform_smart_update(existing_path, new_path, force, interactive)
PerformSmartUpdate ==
    /\ phase = "checked"
    /\ \E f \in BOOLEAN, i \in BOOLEAN :
       \E r \in Responses(existing, new, f, i), order \in Orders(Listing(new)) :
          LET done == perform_smart_update(existing, new, f, i, r, order)
          IN  /\ existing' = done.tree
              /\ ret' = done.ret
              /\ force' = f
              /\ interactive' = i
              /\ response' = r
    /\ pre' = existing
    /\ phase' = "updated"
    /\ UNCHANGED <<new, status, recheck>>
    /\ UNCHANGED <<parseVars, instVars, dlVars>>

\* check_existing_skill(existing_path, new_path) once more, with the candidate
\* as it was and the destination as perform_smart_update left it.
RecheckExistingSkill ==
    /\ phase = "updated"
    /\ recheck' = check_existing_skill(existing, new)
    /\ phase' = "rechecked"
    /\ UNCHANGED <<existing, new, pre, force, interactive, response, status, ret>>
    /\ UNCHANGED <<parseVars, instVars, dlVars>>

\* -------------------------------------------------- classifying a locator

NotParsed == [type |-> ""]

ParseInit ==
    /\ url \in Locators
    /\ parsed = NotParsed

ParseIdle ==
    /\ url = <<>>
    /\ parsed = NotParsed

\* url_type, components = parse_github_url(url)
ParseGithubUrl ==
    /\ parsed = NotParsed
    /\ url # <<>>
    /\ parsed' = parse_github_url(url)
    /\ UNCHANGED url
    /\ UNCHANGED <<reconVars, instVars, dlVars>>

\* ------------------------------------------------------------ the installer

NoOpts == [force |-> FALSE, check_only |-> FALSE, interactive |-> FALSE]

NothingFetched == [kind |-> "nothing"]

InstallInit ==
    /\ dest \in InitialDests
    /\ destBefore = dest
    /\ scratch = FALSE
    /\ zipTmp = FALSE
    /\ pc = "loop"
    /\ mode \in {"single", "batch"}
    /\ urls \in IF mode = "single" THEN UrlLists(1) ELSE UrlLists(MaxUrls)
    /\ idx = 1
    /\ opts \in {o \in [force : BOOLEAN, check_only : BOOLEAN, interactive : BOOLEAN] :
                    mode = "batch" => ~o.check_only}
    /\ comps = NotParsed
    /\ fetched = NothingFetched
    /\ outcome = None
    /\ installed = <<>>
    /\ failed = <<>>
    /\ log = <<>>

InstallIdle ==
    /\ dest = EmptyDest
    /\ destBefore = EmptyDest
    /\ scratch = FALSE
    /\ zipTmp = FALSE
    /\ pc = "idle"
    /\ mode = "single"
    /\ urls = <<>>
    /\ idx = 1
    /\ opts = NoOpts
    /\ comps = NotParsed
    /\ fetched = NothingFetched
    /\ outcome = None
    /\ installed = <<>>
    /\ failed = <<>>
    /\ log = <<>>

\* leave_with as if the directory were removed at the end of the block only.
leave_with_on_return(out) == out.kind = "raise"

\* `with tempfile.TemporaryDirectory()` (line 406) is left, by a return or an
\* exception: whether the directory still exists.
leave_with(out) == FALSE

\* The finally clause of download_github_repo (lines 286-287).
unlink_zip(out) == FALSE

\* batch_record without the except clause of lines 566-568.
batch_record_uncaught(lists, locator, out) ==
    [installed |-> IF out.kind = "path" THEN Append(lists.installed, out.path)
                   ELSE lists.installed,
     failed |-> lists.failed,
     propagates |-> out.kind = "raise"]

\* Lines 558-568: what one finished call adds to the batch's lists.
batch_record(lists, locator, out) ==
    [installed |-> IF out.kind = "path" THEN Append(lists.installed, out.path)
                   ELSE lists.installed,
     failed |-> IF out.kind = "raise" THEN Append(lists.failed, <<locator, out.msg>>)
                ELSE lists.failed,
     propagates |-> FALSE]

\* An exception of install_skill ends the run when main() called it, and is
\* caught by the loop of install_skills_batch.
after_call(lists, locator, out) ==
    IF mode = "batch" THEN batch_record(lists, locator, out)
    ELSE [installed |-> lists.installed, failed |-> lists.failed,
          propagates |-> out.kind = "raise"]

\* install_skill has returned or raised with `out`: the caller goes on.
Finish(out) ==
    LET lists == after_call([installed |-> installed, failed |-> failed], urls[idx], out)
    IN  /\ outcome' = out
        /\ log' = Append(log, [url |-> urls[idx], out |-> out])
        /\ installed' = lists.installed
        /\ failed' = lists.failed
        /\ idx' = idx + 1
        /\ pc' = IF lists.propagates \/ idx + 1 > Len(urls) THEN "done" ELSE "loop"

\* Lines 400-406: the locator is parsed and the scratch directory made.
EnterInstall ==
    /\ pc = "loop"
    /\ idx <= Len(urls)
    /\ destBefore' = dest
    /\ fetched' = NothingFetched
    /\ LET p == parse_github_url(urls[idx])
       IN  IF p.type = "ValueError"
           THEN /\ Finish(Raise("Unsupported URL format"))
                /\ UNCHANGED <<comps, scratch>>
           ELSE /\ comps' = p
                /\ scratch' = TRUE
                /\ pc' = "download"
                /\ UNCHANGED <<outcome, log, installed, failed, idx>>
    /\ UNCHANGED <<dest, zipTmp, mode, urls, opts>>
    /\ UNCHANGED <<reconVars, parseVars, dlVars>>

\* The file name lines 412 and 430 take from the locator.
filename_of(locator, p) ==
    IF p.type = "file" THEN last_segment(p.path) ELSE last_segment(locator)

\* download_file or download_github_folder has left its result in the scratch
\* directory (lines 414, 432, 446-452).
Download ==
    /\ pc = "download"
    /\ comps.type # "repo"
    /\ \/ /\ comps.type = "folder"
          /\ \E t \in FetchedTrees : fetched' = [kind |-> "tree", tree |-> t]
       \/ /\ comps.type \in {"raw", "direct", "file"}
          /\ endswith_skill(filename_of(urls[idx], comps))
          /\ \E a \in FetchedArchives : fetched' = [kind |-> "archive", archive |-> a]
       \/ /\ comps.type \in {"raw", "direct", "file"}
          /\ ~endswith_skill(filename_of(urls[idx], comps))
          /\ fetched' = [kind |-> "text", data |-> SkillV1]
    /\ pc' = "install"
    /\ UNCHANGED <<dest, destBefore, scratch, zipTmp, mode, urls, idx, opts, comps,
                   outcome, installed, failed, log>>
    /\ UNCHANGED <<reconVars, parseVars, dlVars>>

\* The download raised (HTTPError, URLError): the exception leaves the with block.
DownloadFails ==
    /\ pc = "download"
    /\ comps.type # "repo"
    /\ scratch' = leave_with(Raise("HTTPError"))
    /\ Finish(Raise("HTTPError"))
    /\ UNCHANGED <<dest, destBefore, zipTmp, mode, urls, opts, comps, fetched>>
    /\ UNCHANGED <<reconVars, parseVars, dlVars>>

\* download_github_repo, lines 268-271: the temporary zip file is made.
DownloadRepoStart ==
    /\ pc = "download"
    /\ comps.type = "repo"
    /\ zipTmp' = TRUE
    /\ pc' = "zip"
    /\ UNCHANGED <<dest, destBefore, scratch, mode, urls, idx, opts, comps, fetched,
                   outcome, installed, failed, log>>
    /\ UNCHANGED <<reconVars, parseVars, dlVars>>

\* download_github_repo, lines 273-287: the archive is downloaded and extracted.
ExtractRepo ==
    /\ pc = "zip"
    /\ \E t \in FetchedTrees :
          fetched' = [kind |-> "repo", root |-> RepoArchiveRoot, tree |-> t]
    /\ zipTmp' = unlink_zip(None)
    /\ pc' = "install"
    /\ UNCHANGED <<dest, destBefore, scratch, mode, urls, idx, opts, comps,
                   outcome, installed, failed, log>>
    /\ UNCHANGED <<reconVars, parseVars, dlVars>>

\* download_github_repo, lines 273-287: the download or the extraction raised.
DownloadRepoFails ==
    /\ pc = "zip"
    /\ zipTmp' = unlink_zip(Raise("HTTPError"))
    /\ scratch' = leave_with(Raise("HTTPError"))
    /\ Finish(Raise("HTTPError"))
    /\ UNCHANGED <<dest, destBefore, mode, urls, opts, comps, fetched>>
    /\ UNCHANGED <<reconVars, parseVars, dlVars>>

\* The rest of install_skill for what was fetched (lines 416-533): the
\* destination and the result, for the answer typed at a prompt, the order of
\* the directory listing and the skill root find_skill_in_folder returned.
install_fetched(answer, order, found) ==
    CASE fetched.kind = "text" ->
           install_file(filename_of(urls[idx], comps), fetched.data, dest, order)
      [] fetched.kind = "archive" ->
           install_file(filename_of(urls[idx], comps), fetched.archive, dest, order)
      [] fetched.kind = "tree" ->
           install_tree(NameStr(last_segment(comps.path)), NameStr(last_segment(comps.path)),
                        fetched.tree, found, dest, opts, answer, order)
      [] fetched.kind = "repo" ->
           install_tree(fetched.root, NameStr(comps.repo),
                        fetched.tree, found, dest, opts, answer, order)

\* The trees whose listing the call iterates over.
IteratedTree(found) ==
    CASE fetched.kind = "text" -> EmptyTree
      [] fetched.kind = "archive" -> fetched.archive.tree
      [] OTHER -> skill_root_of(fetched.tree, found)

InstallFetched ==
    /\ pc = "install"
    /\ \E answer \in {"n", "y"},
          found \in IF fetched.kind \in {"tree", "repo"}
                    THEN find_skill_in_folder(fetched.tree) ELSE {""} :
       \E order \in Orders(Listing(IteratedTree(found))) :
          LET done == install_fetched(answer, order, found)
          IN  /\ dest' = done.dest
              /\ scratch' = leave_with(final_result(done.out, opts))
              /\ Finish(final_result(done.out, opts))
    /\ UNCHANGED <<destBefore, zipTmp, mode, urls, opts, comps, fetched>>
    /\ UNCHANGED <<reconVars, parseVars, dlVars>>

InstallNext ==
    \/ EnterInstall
    \/ Download
    \/ DownloadFails
    \/ DownloadRepoStart
    \/ ExtractRepo
    \/ DownloadRepoFails
    \/ InstallFetched


\* --------------------------------------------------------- downloading a file

NoResult == [kind |-> "none"]

DownloadInit ==
    /\ dlUrl \in DownloadUrls
    /\ requests = <<>>
    /\ dlResult = NoResult
    /\ dlPc = "start"

DownloadIdle ==
    /\ dlUrl = <<>>
    /\ requests = <<>>
    /\ dlResult = NoResult
    /\ dlPc = "idle"

\* Lines 211-212: urlretrieve(url, dest_path) returns, or raises something the
\* handler re-raises or does not catch.
FirstRequest ==
    /\ dlPc = "start"
    /\ \E resp \in ServerResponses :
          /\ requests' = Append(requests, [url |-> dlUrl, resp |-> resp])
          /\ IF is_not_found(resp)
             THEN dlPc' = "caught" /\ UNCHANGED dlResult
             ELSE dlPc' = "done" /\ dlResult' = download_result(resp)
    /\ UNCHANGED dlUrl
    /\ UNCHANGED <<reconVars, parseVars, instVars>>

\* Lines 216-219: the alternate URL is requested; what it raises propagates.
RetryAlternate ==
    /\ dlPc = "caught"
    /\ tries_alternate(dlUrl, requests[Len(requests)].resp)
    /\ \E resp \in ServerResponses :
          /\ requests' = Append(requests, [url |-> replace_main(dlUrl), resp |-> resp])
          /\ dlResult' = download_result(resp)
    /\ dlPc' = "done"
    /\ UNCHANGED dlUrl
    /\ UNCHANGED <<reconVars, parseVars, instVars>>

\* Lines 220-221: the 404 is raised again.
ReraiseNotFound ==
    /\ dlPc = "caught"
    /\ ~tries_alternate(dlUrl, requests[Len(requests)].resp)
    /\ dlResult' = download_result(requests[Len(requests)].resp)
    /\ dlPc' = "done"
    /\ UNCHANGED <<dlUrl, requests>>
    /\ UNCHANGED <<reconVars, parseVars, instVars>>

DownloadNext == FirstRequest \/ RetryAlternate \/ ReraiseNotFound


\* --------------------------------------------------------- specifications

ReconIdle ==
    /\ existing = EmptyTree
    /\ new = EmptyTree
    /\ pre = EmptyTree
    /\ force = FALSE
    /\ interactive = FALSE
    /\ response = ""
    /\ status = NoStatus
    /\ ret = ""
    /\ recheck = NoStatus
    /\ phase = "idle"

\* Reconciliation of one installed skill with one candidate.
Init == ReconInit /\ ParseIdle /\ InstallIdle /\ DownloadIdle

Next ==
    \/ CheckExistingSkill
    \/ PerformSmartUpdate
    \/ RecheckExistingSkill

Spec == Init /\ [][Next]_vars

\* Classification of one locator.
ParseSpecInit == ParseInit /\ ReconIdle /\ InstallIdle /\ DownloadIdle

ParseNext == ParseGithubUrl

ParseSpec == ParseSpecInit /\ [][ParseNext]_vars

\* One run of the installer: a single install_skill call or one batch.
InstallSpecInit == InstallInit /\ ReconIdle /\ ParseIdle /\ DownloadIdle

InstallSpec == InstallSpecInit /\ [][InstallNext]_vars

\* One call of download_file.
DownloadSpecInit == DownloadInit /\ ReconIdle /\ ParseIdle /\ InstallIdle

DownloadSpec == DownloadSpecInit /\ [][DownloadNext]_vars


\* ------------------------------------------------------------------ claims

Updated == phase = "updated"

\* The existing CONTEXT.md was classified as personalized by the call.
WasPersonalized ==
    /\ pre["CONTEXT.md"].kind = "file"
    /\ is_context_personalized(pre["CONTEXT.md"].data)

\* C1: the status check_existing_skill returns has strategy skip exactly when
\* skill_md is same and context_md is same or missing, strategy merge whenever
\* context_md is personalized, and strategy update in every other case.
C1_StrategyInvariant ==
    (phase # "fresh" /\ ~status.raised) =>
        /\ status.strategy = "skip" <=>
              (status.skill_md = "same" /\ status.context_md \in {"same", "missing"})
        /\ status.context_md = "personalized" => status.strategy = "merge"
        /\ (/\ ~(status.skill_md = "same" /\ status.context_md \in {"same", "missing"})
            /\ status.context_md # "personalized") => status.strategy = "update"

C1_Witness ==
    /\ phase = "checked"
    /\ ~status.raised
    /\ status.skill_md = "same"
    /\ status.context_md = "personalized"
    /\ status.strategy = "merge"

\* C2: a CONTEXT.md classified as personalized is the same file after
\* perform_smart_update as before it, whatever the candidate, force, interactive
\* and the answer, and however the call ends.
C2_PersonalizedContextKept ==
    (Updated /\ WasPersonalized) => existing["CONTEXT.md"] = pre["CONTEXT.md"]

C2_Witness ==
    /\ Updated /\ WasPersonalized
    /\ ret = "True"
    /\ new["CONTEXT.md"].kind = "file"
    /\ new["CONTEXT.md"] # pre["CONTEXT.md"]
    /\ existing["SKILL.md"] # pre["SKILL.md"]

\* C3: whenever perform_smart_update returns False (nothing to do, or the user
\* answered no), the existing tree is exactly what it was before the call.
C3_SkippedLeavesTreeUntouched ==
    (Updated /\ ret = "False") => existing = pre

\* C5: after a merge that returned True with a CONTEXT.md in the candidate, the
\* destination's CONTEXT.md.new is a file with the candidate's CONTEXT.md content
\* and the personalized CONTEXT.md is unchanged.
C5_NewContextParked ==
    (Updated /\ WasPersonalized /\ Exists(new["CONTEXT.md"]) /\ ret = "True") =>
        /\ existing["CONTEXT.md.new"] = File(new["CONTEXT.md"].data)
        /\ existing["CONTEXT.md"] = pre["CONTEXT.md"]

\* The candidate provides the file f of the directory n.
Provides(n, f) ==
    /\ new[n].kind = "dir"
    /\ \E p \in new[n].files : p[1] = f

\* C6 as stated: perform_smart_update changes only destination entries named
\* like a top-level entry of the candidate, and deletes no destination entry, at
\* any depth, that the candidate does not provide.
C6_OnlyCandidateEntriesTouched ==
    Updated =>
        /\ \A n \in Names \ Listing(new) : existing[n] = pre[n]
        /\ \A n \in Names :
              pre[n].kind = "dir" =>
                 \A p \in pre[n].files :
                    ~Provides(n, p[1]) => (existing[n].kind = "dir" /\ p \in existing[n].files)

\* C6 amended: a top-level destination entry whose name is not that of a
\* top-level entry of the candidate is unchanged, with everything below it,
\* except CONTEXT.md.new when the existing CONTEXT.md is personalized and the
\* candidate has a CONTEXT.md.
C6_OtherTopLevelEntriesKept ==
    Updated =>
        \A n \in Names \ Listing(new) :
            (n = "CONTEXT.md.new" /\ WasPersonalized /\ Exists(new["CONTEXT.md"]))
               \/ existing[n] = pre[n]

C6_Witness ==
    /\ Updated /\ ret = "True"
    /\ ~Exists(new["assets"]) /\ pre["assets"].kind = "dir" /\ pre["assets"].files # {}
    /\ ~Exists(new["CONTEXT.md.new"]) /\ Exists(pre["CONTEXT.md.new"])
    /\ ~WasPersonalized
    /\ existing # pre


\* No install_skill call is under way, and at least one has ended.
CallEnded == pc \in {"loop", "done"} /\ log # <<>>

\* C4: an install_skill call with check_only returns None and leaves the
\* destination directory as it was, for every kind of source, with or without a
\* same-named skill at the destination and with or without SKILL.md in what was
\* fetched.
C4_CheckOnlyMutatesNothing ==
    (CallEnded /\ opts.check_only /\ outcome.kind # "raise") =>
        /\ outcome = None
        /\ dest = destBefore

\* A directory of the destination that holds SKILL.md.
IsInstalledSkill(entry) == entry.kind = "tree" /\ Exists(entry.tree["SKILL.md"])

\* C7: an installed skill directory outlives every install_skill call: it is a
\* skill directory afterwards too, and a CONTEXT.md it held is still in it, also
\* when what was fetched has no SKILL.md.
C7_InstalledSkillNeverDeleted ==
    CallEnded =>
        \A n \in DestNames :
            IsInstalledSkill(destBefore[n]) =>
                /\ IsInstalledSkill(dest[n])
                /\ Exists(destBefore[n].tree["CONTEXT.md"]) => Exists(dest[n].tree["CONTEXT.md"])

\* C8: once an install_skill call has returned or raised, its scratch directory
\* is gone, however the call ended.
C8_ScratchRemovedOnExit ==
    pc \in {"loop", "done"} => ~scratch

C8_Witness ==
    /\ CallEnded
    /\ ~scratch
    /\ outcome = Raise("HTTPError")
    /\ \E k \in 1..Len(log) : log[k].out = None

\* The paths of the calls of the log that returned one, in order.
RECURSIVE InstalledIn(_)
InstalledIn(l) ==
    IF l = <<>> THEN <<>>
    ELSE IF l[Len(l)].out.kind = "path"
         THEN Append(InstalledIn(SubSeq(l, 1, Len(l) - 1)), l[Len(l)].out.path)
         ELSE InstalledIn(SubSeq(l, 1, Len(l) - 1))

\* The locator and message of the calls of the log that raised, in order.
RECURSIVE FailedIn(_)
FailedIn(l) ==
    IF l = <<>> THEN <<>>
    ELSE IF l[Len(l)].out.kind = "raise"
         THEN Append(FailedIn(SubSeq(l, 1, Len(l) - 1)), <<l[Len(l)].url, l[Len(l)].out.msg>>)
         ELSE FailedIn(SubSeq(l, 1, Len(l) - 1))

\* C9: install_skills_batch takes the locators one after another in list order,
\* each call ending before the next begins; a call that raises is recorded with
\* its locator and message and the batch goes on, so that at the end every
\* locator was attempted exactly once and the list returned holds exactly the
\* paths of the calls that returned one.
C9_BatchAttemptsEveryLocator ==
    mode = "batch" =>
        /\ Len(log) = idx - 1
        /\ \A k \in 1..Len(log) : log[k].url = urls[k]
        /\ pc \in {"download", "zip", "install"} => idx <= Len(urls)
        /\ installed = InstalledIn(log)
        /\ failed = FailedIn(log)
        /\ pc = "done" => Len(log) = Len(urls)

C9_Witness ==
    /\ mode = "batch"
    /\ pc = "done"
    /\ Len(urls) = 2
    /\ log[1].out.kind = "raise"
    /\ log[2].out.kind = "path"
    /\ installed = <<log[2].out.path>>
    /\ failed = <<<<urls[1], log[1].out.msg>>>>


\* The locator is host/owner/repo for the host github.com, with or without a
\* scheme, a trailing slash and blanks around it.
BareRepoLocator(u) ==
    LET n == normalize(u)
        b == IF n # <<>> /\ n[1] \in Schemes THEN Tail(n) ELSE n
        p == split(b, <<>>, <<>>)
    IN  /\ Len(p) = 3
        /\ p[1] = <<"github.com">>
        /\ IsSeg(p[2]) /\ IsSeg(p[3])

OwnerOf(u) == split(normalize(u), <<>>, <<>>)[Len(split(normalize(u), <<>>, <<>>)) - 1]

RepoOf(u) == split(normalize(u), <<>>, <<>>)[Len(split(normalize(u), <<>>, <<>>))]

\* The name with one trailing ".git" removed.
WithoutGitSuffix(name) ==
    IF name # <<>> /\ name[Len(name)] = ".git" THEN SubSeq(name, 1, Len(name) - 1) ELSE name

\* C10: for a locator of the bare shape host/owner/repo, parse_github_url returns
\* a 'repo' locator of that owner with branch main and the repository name with
\* its trailing .git removed.
C10_BareRepoStripsGit ==
    (parsed # NotParsed /\ BareRepoLocator(url)) =>
        /\ parsed.type = "repo"
        /\ parsed.owner = OwnerOf(url)
        /\ parsed.branch = <<"main">>
        /\ parsed.repo = WithoutGitSuffix(RepoOf(url))


\* The branch a downloaded URL names: the segment after owner and repository
\* of a raw file URL, the name of the archive of an archive URL; "" if none.
BranchOf(u) ==
    LET p == split(SubSeq(u, 2, Len(u)), <<>>, <<>>)
    IN  IF u[2] = "raw.githubusercontent.com" /\ Len(p) >= 4 THEN p[4][1]
        ELSE IF u[2] = "github.com" /\ Len(p) = 7 /\ p[4] = <<"archive">> THEN p[7][1]
        ELSE ""

\* The position of the branch among the tokens of u.
BranchAt(u) == IF u[2] = "raw.githubusercontent.com" THEN 8 ELSE 14

\* The URL with its branch main replaced by master.
WithMaster(u) == [u EXCEPT ![BranchAt(u)] = "master"]

\* C11: download_file asks a second time, for the URL with the branch main
\* replaced by master, exactly when the first request met 404 and the URL names
\* the default branch main; it makes no third request; the bytes of the last
\* request are the result, and its failure is the failure raised.
C11_OneFallbackForMain ==
    dlPc = "done" =>
        /\ Len(requests) \in {1, 2}
        /\ requests[1].url = dlUrl
        /\ Len(requests) = 2 <=> (requests[1].resp.code = 404 /\ BranchOf(dlUrl) = "main")
        /\ Len(requests) = 2 => requests[2].url = WithMaster(dlUrl)
        /\ dlResult = download_result(requests[Len(requests)].resp)


\* The first check chose update and perform_smart_update applied it, for a
\* candidate that contains SKILL.md; check_existing_skill has been called again.
UpdateApplied ==
    /\ phase = "rechecked"
    /\ ~status.raised
    /\ status.strategy = "update"
    /\ ret = "True"
    /\ Exists(new["SKILL.md"])

\* C12 as stated: after an update that was applied, a second
\* check_existing_skill of the same destination against the same candidate
\* gives strategy skip.
C12_UpdateThenSkip ==
    UpdateApplied => (~recheck.raised /\ recheck.strategy = "skip")

\* The candidate's CONTEXT.md is a regular file that still holds a template
\* marker, or neither tree had a CONTEXT.md.
ContextSettles ==
    \/ /\ new["CONTEXT.md"].kind = "file"
       /\ ~is_context_personalized(new["CONTEXT.md"].data)
    \/ /\ ~Exists(new["CONTEXT.md"])
       /\ ~Exists(pre["CONTEXT.md"])

\* C12 amended: after an update that was applied, the second check gives skip
\* exactly when the candidate's CONTEXT.md is a template file or neither tree
\* has a CONTEXT.md; a template CONTEXT.md the candidate lacks gives update
\* again, a candidate CONTEXT.md without a marker gives merge, and a candidate
\* CONTEXT.md that is a directory makes the second check raise.
C12_UpdateThenSkipWhenContextSettles ==
    UpdateApplied =>
        /\ ContextSettles <=> (~recheck.raised /\ recheck.strategy = "skip")
        /\ (~Exists(new["CONTEXT.md"]) /\ Exists(pre["CONTEXT.md"])) =>
              (~recheck.raised /\ recheck.strategy = "update")
        /\ (new["CONTEXT.md"].kind = "file" /\ is_context_personalized(new["CONTEXT.md"].data)) =>
              (~recheck.raised /\ recheck.strategy = "merge")
        /\ IsDir(new["CONTEXT.md"]) => recheck.raised

C12_Witness ==
    /\ UpdateApplied
    /\ ContextSettles
    /\ pre["SKILL.md"] = File(SkillV2)
    /\ pre["CONTEXT.md"] = File(TemplateB)
    /\ existing["SKILL.md"] = new["SKILL.md"]
    /\ existing["CONTEXT.md"] = new["CONTEXT.md"]
    /\ ~recheck.raised
    /\ recheck.strategy = "skip"


====
